---- MODULE Spec2Model ----
(***************************************************************************)
(* halotools: the composite-model builder SmHmBinarySFR                    *)
(* (empirical_models/composite_models/sfr_models/smhm_binary_sfr.py) and   *)
(* the designer stub HOD_Model_Designer (hod_designer.py).                 *)
(*                                                                         *)
(* Python values are modelled as follows.  A number is PyNum(v), None is   *)
(* PyNone.  Fractions are kept in hundredths (0.25 is 25, 0.2 is 20).  A   *)
(* dict is a function from keys to values, built with :> and @@.  An       *)
(* object with identity is named by an object id [call, role]: call 0 is   *)
(* function-definition time, call n > 0 is the n-th builder call.  The     *)
(* collaborators that are not part of the two source files (the sub-model  *)
(* constructors and SubhaloModelFactory) are an environment: in every call *)
(* each of them either returns a fresh object or raises.                   *)
(***************************************************************************)
EXTENDS Integers, Sequences, FiniteSets, TLC

VARIABLES config, heap, ncalls, call, handed, designer

vars == <<config, heap, ncalls, call, handed, designer>>

----------------------------------------------------------------------------
(* Bounds of the exploration.                                              *)

MaxCalls == 2
MaxArgs == 2

----------------------------------------------------------------------------
(* Python values.                                                          *)

PyNone == [t |-> "None", v |-> 0]
PyNum(v) == [t |-> "num", v |-> v]

EmptyDict == <<>>

Obj(n, role) == [call |-> n, role |-> role]

NoObj == Obj(0, "none")

(* The two list objects created once, when the def statement is executed:  *)
(* sfr_abcissa = [12, 15], sfr_ordinates = [0.25, 0.75].                   *)
DefaultAbcissaObj == Obj(0, "sfr_abcissa")
DefaultOrdinatesObj == Obj(0, "sfr_ordinates")
DefaultObjs == {DefaultAbcissaObj, DefaultOrdinatesObj}

DefaultHeap == (DefaultAbcissaObj :> <<12, 15>>) @@ (DefaultOrdinatesObj :> <<25, 75>>)

default_scatter_level == 20

(* Defaults taken from modules outside the two source files.               *)
default_smhm_haloprop == "default_smhm_haloprop"
default_redshift == 0

----------------------------------------------------------------------------
(* The callers' configurations.                                            *)

PrimKeys == {default_smhm_haloprop, "halo_vmax"}
SmhmModels == {"Behroozi10SmHm", "CustomSmHm", "CustomQuiescent", "CustomNoName"}
Redshifts == {default_redshift, 1}
ScatterLevels == {default_scatter_level, 35}

(* A list argument is either omitted (the default object is bound) or a    *)
(* list the caller builds for the call.                                    *)
Omitted == [given |-> FALSE, val |-> <<>>]
Given(val) == [given |-> TRUE, val |-> val]
AbcissaArgs == {Omitted, Given(<<15, 12>>)}
OrdinatesArgs == {Omitted, Given(<<75, 25, 50>>)}

(* Extra keyword options.  "abcissa" is also an explicit keyword of the    *)
(* SFR constructor call, "scatter_abcissa" of the stellar-mass call.       *)
KwKeys == {"threshold", "abcissa", "scatter_abcissa", "extra_option"}
Thresholds == {PyNone, PyNum(0), PyNum(10)}
KwValues(k) == IF k = "threshold" THEN Thresholds ELSE {PyNum(7)}
KwargsOver(S) == {kw \in [S -> Thresholds \cup {PyNum(7)}] : \A k \in S : kw[k] \in KwValues(k)}
KwargsSet == UNION {KwargsOver(S) : S \in SUBSET KwKeys}

Configs == [prim_haloprop_key : PrimKeys, smhm_model : SmhmModels,
            scatter_level : ScatterLevels, redshift : Redshifts,
            sfr_abcissa : AbcissaArgs, sfr_ordinates : OrdinatesArgs,
            logparam : BOOLEAN, kwargs : KwargsSet]

DefaultConfig == [prim_haloprop_key |-> default_smhm_haloprop, smhm_model |-> "Behroozi10SmHm",
                  scatter_level |-> default_scatter_level, redshift |-> default_redshift,
                  sfr_abcissa |-> Omitted, sfr_ordinates |-> Omitted,
                  logparam |-> TRUE, kwargs |-> EmptyDict]

----------------------------------------------------------------------------
(* The collaborators: each constructor returns or raises.                  *)

Envs == [sfr : {"ok", "ValueError"}, sm : {"ok", "KeyError"}, factory : {"ok", "HalotoolsError"}]

(* The property name a stellar-mass sub-model declares, as a sequence of   *)
(* zero or one names: an object of CustomNoName has no galprop_name.       *)
SmGalpropName(callee) ==
    CASE callee = "Behroozi10SmHm" -> <<"stellar_mass">>
      [] callee = "CustomSmHm" -> <<"mstar">>
      [] callee = "CustomQuiescent" -> <<"quiescent">>
      [] OTHER -> <<>>

(* BinaryGalpropInterpolModel declares the galprop_name it was given.      *)
SfrGalpropName(args) == args.galprop_name

----------------------------------------------------------------------------
(* SmHmBinarySFR.                                                          *)

(* Binding of the parameters at call n: an omitted list parameter is bound *)
(* to the default object of the def statement, with its present content.   *)
BindParameters(cfg, n, hp) ==
    [prim_haloprop_key |-> cfg.prim_haloprop_key,
     smhm_model |-> cfg.smhm_model,
     scatter_level |-> cfg.scatter_level,
     redshift |-> cfg.redshift,
     sfr_abcissa |-> IF cfg.sfr_abcissa.given
                     THEN [obj |-> Obj(n, "arg_sfr_abcissa"), val |-> cfg.sfr_abcissa.val]
                     ELSE [obj |-> DefaultAbcissaObj, val |-> hp[DefaultAbcissaObj]],
     sfr_ordinates |-> IF cfg.sfr_ordinates.given
                       THEN [obj |-> Obj(n, "arg_sfr_ordinates"), val |-> cfg.sfr_ordinates.val]
                       ELSE [obj |-> DefaultOrdinatesObj, val |-> hp[DefaultOrdinatesObj]],
     logparam |-> cfg.logparam,
     kwargs |-> cfg.kwargs]

(* A call f(k1=..., **kwargs) raises TypeError before f runs when kwargs   *)
(* repeats one of the explicit keywords.                                   *)
SfrKeywords == {"galprop_name", "prim_haloprop_key", "abcissa", "ordinates", "logparam"}
SmKeywords == {"prim_haloprop_key", "redshift", "scatter_abcissa", "scatter_ordinates"}
KeywordClash(explicit, kwargs) == (DOMAIN kwargs) \cap explicit # {}

SfrCallArgs_swapped(p) ==
    [galprop_name |-> "quiescent", prim_haloprop_key |-> p.prim_haloprop_key,
     abcissa |-> p.sfr_ordinates, ordinates |-> p.sfr_abcissa,
     logparam |-> p.logparam, kwargs |-> p.kwargs]

SfrCallArgs(p) ==
    [galprop_name |-> "quiescent", prim_haloprop_key |-> p.prim_haloprop_key,
     abcissa |-> p.sfr_abcissa, ordinates |-> p.sfr_ordinates,
     logparam |-> p.logparam, kwargs |-> p.kwargs]

SmCallee_default(p) == "Behroozi10SmHm"

SmCallee(p) == p.smhm_model

SmCallArgs_no_threshold(p, n) ==
    [prim_haloprop_key |-> p.prim_haloprop_key, redshift |-> p.redshift,
     scatter_abcissa |-> [obj |-> Obj(n, "scatter_abcissa"), val |-> <<12>>],
     scatter_ordinates |-> [obj |-> Obj(n, "scatter_ordinates"), val |-> <<p.scatter_level>>],
     kwargs |-> [k \in (DOMAIN p.kwargs) \ {"threshold"} |-> p.kwargs[k]]]

SmCallArgs(p, n) ==
    [prim_haloprop_key |-> p.prim_haloprop_key, redshift |-> p.redshift,
     scatter_abcissa |-> [obj |-> Obj(n, "scatter_abcissa"), val |-> <<12>>],
     scatter_ordinates |-> [obj |-> Obj(n, "scatter_ordinates"), val |-> <<p.scatter_level>>],
     kwargs |-> p.kwargs]

(* The dict display {sm.galprop_name: sm, sfr.galprop_name: sfr}: entries  *)
(* are inserted left to right, a repeated key keeps the later value.       *)
Blueprint_sm_only(sm_model, sfr_model) ==
    (sm_model.galprop_name :> sm_model.obj)

Blueprint_first_wins(sm_model, sfr_model) ==
    (sm_model.galprop_name :> sm_model.obj) @@ (sfr_model.galprop_name :> sfr_model.obj)

Blueprint(sm_model, sfr_model) ==
    (sfr_model.galprop_name :> sfr_model.obj) @@ (sm_model.galprop_name :> sm_model.obj)

(* lambda x: x['stellar_mass'] > kwargs['threshold'], for a numeric        *)
(* threshold; the closure is the kwargs dict it captures.                  *)
galaxy_selection_func_ge(closure, x) == x["stellar_mass"] >= closure["threshold"].v

galaxy_selection_func(closure, x) == x["stellar_mass"] > closure["threshold"].v

NoSelection == [given |-> FALSE, closure |-> EmptyDict]

FactoryCallArgs(blueprint, n, kwargs) ==
    IF "threshold" \in DOMAIN kwargs
    THEN [blueprint |-> [obj |-> Obj(n, "blueprint"), val |-> blueprint],
          galaxy_selection_func |-> [given |-> TRUE, closure |-> kwargs]]
    ELSE [blueprint |-> [obj |-> Obj(n, "blueprint"), val |-> blueprint],
          galaxy_selection_func |-> NoSelection]

Returned(obj) == [kind |-> "returned", error |-> "none", value |-> obj]
Raised(err) == [kind |-> "raised", error |-> err, value |-> NoObj]

(* The function has no try statement: an exception raised by a callee      *)
(* leaves the call as it is.                                               *)
Propagate_translated(err) == Raised("HalotoolsError")

Propagate(err) == Raised(err)

Trace(sfr_calls, sm_calls, factory_calls, outcome) ==
    [sfr_calls |-> sfr_calls, sm_calls |-> sm_calls,
     factory_calls |-> factory_calls, outcome |-> outcome]

NoCall == Trace(<<>>, <<>>, <<>>, [kind |-> "none", error |-> "none", value |-> NoObj])

(* The n-th call of the builder with configuration cfg, the default lists  *)
(* holding hp, the collaborators behaving as env: what each collaborator   *)
(* was called with, and how the call ended.                                *)
SmHmBinarySFR(cfg, n, hp, env) ==
    LET p == BindParameters(cfg, n, hp)
        sfrInv == [args |-> SfrCallArgs(p), raised |-> env.sfr,
                   result |-> IF env.sfr = "ok" THEN Obj(n, "sfr_model") ELSE NoObj]
        smInv == [callee |-> SmCallee(p), args |-> SmCallArgs(p, n), raised |-> env.sm,
                  result |-> IF env.sm = "ok" THEN Obj(n, "sm_model") ELSE NoObj]
    IN  IF KeywordClash(SfrKeywords, p.kwargs)
        THEN Trace(<<>>, <<>>, <<>>, Propagate("TypeError"))
        ELSE IF env.sfr # "ok"
        THEN Trace(<<sfrInv>>, <<>>, <<>>, Propagate(env.sfr))
        ELSE IF KeywordClash(SmKeywords, p.kwargs)
        THEN Trace(<<sfrInv>>, <<>>, <<>>, Propagate("TypeError"))
        ELSE IF env.sm # "ok"
        THEN Trace(<<sfrInv>>, <<smInv>>, <<>>, Propagate(env.sm))
        ELSE IF SmGalpropName(smInv.callee) = <<>>
        THEN Trace(<<sfrInv>>, <<smInv>>, <<>>, Propagate("AttributeError"))
        ELSE
            LET sm_model == [obj |-> smInv.result, galprop_name |-> SmGalpropName(smInv.callee)[1]]
                sfr_model == [obj |-> sfrInv.result, galprop_name |-> SfrGalpropName(sfrInv.args)]
                blueprint == Blueprint(sm_model, sfr_model)
                facInv == [args |-> FactoryCallArgs(blueprint, n, p.kwargs),
                           raised |-> env.factory,
                           result |-> IF env.factory = "ok" THEN Obj(n, "model") ELSE NoObj]
            IN  IF env.factory # "ok"
                THEN Trace(<<sfrInv>>, <<smInv>>, <<facInv>>, Propagate(env.factory))
                ELSE Trace(<<sfrInv>>, <<smInv>>, <<facInv>>, Returned(facInv.result))

----------------------------------------------------------------------------
(* HOD_Model_Designer: __init__ takes self, any positional and any keyword *)
(* arguments, and its body is pass.  The result of constructing it: the    *)
(* instance's attributes, or the TypeError of a keyword argument that      *)
(* repeats the parameter self.                                             *)
HOD_Model_Designer_storing(args, kwargs) ==
    IF "self" \in DOMAIN kwargs
    THEN [raised |-> "TypeError", attrs |-> EmptyDict]
    ELSE [raised |-> "none", attrs |-> kwargs]

HOD_Model_Designer(args, kwargs) ==
    IF "self" \in DOMAIN kwargs
    THEN [raised |-> "TypeError", attrs |-> EmptyDict]
    ELSE [raised |-> "none", attrs |-> EmptyDict]

SeqsUpTo(S, n) == UNION {[1..k -> S] : k \in 0..n}
DesignerArgs == SeqsUpTo({1, 2}, MaxArgs)
DesignerKwKeys == {"self", "centrals", "satellites"}
DesignerKwargs == UNION {[S -> {1, 2}] : S \in SUBSET DesignerKwKeys}

NotConstructed == [constructed |-> FALSE, args |-> <<>>, kwargs |-> EmptyDict,
                   raised |-> "none", attrs |-> EmptyDict]

----------------------------------------------------------------------------
(* The state machine.                                                      *)

(* The mutable objects a call handed to its collaborators or got back from *)
(* them: these are the objects reachable from that call's results.         *)
HandedObjs(t) ==
    UNION {{i.args.abcissa.obj, i.args.ordinates.obj, i.result} : i \in {t.sfr_calls[k] : k \in DOMAIN t.sfr_calls}}
    \cup UNION {{i.args.scatter_abcissa.obj, i.args.scatter_ordinates.obj, i.result} : i \in {t.sm_calls[k] : k \in DOMAIN t.sm_calls}}
    \cup UNION {{i.args.blueprint.obj, i.result} : i \in {t.factory_calls[k] : k \in DOMAIN t.factory_calls}}

TypeOK ==
    /\ config \in Configs
    /\ ncalls \in 0..MaxCalls
    /\ DOMAIN heap = DefaultObjs

Init ==
    /\ config \in Configs
    /\ heap = DefaultHeap
    /\ ncalls = 0
    /\ call = NoCall
    /\ handed = {}
    /\ designer = NotConstructed

(* One call of SmHmBinarySFR with the caller's configuration.              *)
Call ==
    /\ ncalls < MaxCalls
    /\ \E env \in Envs :
          call' = SmHmBinarySFR(config, ncalls + 1, heap, env)
    /\ ncalls' = ncalls + 1
    /\ handed' = (handed \cup HandedObjs(call)) \ {NoObj}
    /\ UNCHANGED <<config, heap, designer>>

(* A holder of a list that an earlier or the present call handed out       *)
(* assigns to its first element (lst[0] = 0).                              *)
Mutate ==
    /\ \E o \in DefaultObjs \cap (handed \cup HandedObjs(call)) :
          /\ heap[o][1] # 0
          /\ heap' = [heap EXCEPT ![o] = [@ EXCEPT ![1] = 0]]
    /\ UNCHANGED <<config, ncalls, call, handed, designer>>

Next == Call \/ Mutate

Spec == Init /\ [][Next]_vars

(* The designer stub on its own.                                           *)
InitDesigner ==
    /\ config = DefaultConfig
    /\ heap = DefaultHeap
    /\ ncalls = 0
    /\ call = NoCall
    /\ handed = {}
    /\ designer = NotConstructed

Construct ==
    /\ \E args \in DesignerArgs, kwargs \in DesignerKwargs :
          LET r == HOD_Model_Designer(args, kwargs)
          IN  designer' = [constructed |-> TRUE, args |-> args, kwargs |-> kwargs,
                           raised |-> r.raised, attrs |-> r.attrs]
    /\ UNCHANGED <<config, heap, ncalls, call, handed>>

NextDesigner == Construct

SpecDesigner == InitDesigner /\ [][NextDesigner]_vars

----------------------------------------------------------------------------
(* The claims.                                                             *)

Invocations(calls) == {calls[k] : k \in DOMAIN calls}
SfrInvs == Invocations(call.sfr_calls)
SmInvs == Invocations(call.sm_calls)
FactoryInvs == Invocations(call.factory_calls)

DeclaredSm(i) == SmGalpropName(i.callee)[1]
Galaxy(m) == [stellar_mass |-> m]
CustomSmhm == config.smhm_model # "Behroozi10SmHm"
NamesCollide == \E i \in SmInvs : i.raised = "ok" /\ SmGalpropName(i.callee) = <<"quiescent">>

(* C1 as stated: in every call that returns, the blueprint handed to the   *)
(* factory has exactly two entries, the stellar-mass sub-model under its   *)
(* declared galprop_name and the SFR sub-model under 'quiescent', and the  *)
(* value returned is the factory's result.                                 *)
C1_BlueprintAlwaysTwoEntries ==
    call.outcome.kind = "returned" =>
        \A f \in FactoryInvs, sm \in SmInvs, sfr \in SfrInvs :
            LET bp == f.args.blueprint.val
            IN  /\ Cardinality(DOMAIN bp) = 2
                /\ DOMAIN bp = {DeclaredSm(sm), "quiescent"}
                /\ bp[DeclaredSm(sm)] = sm.result
                /\ bp["quiescent"] = sfr.result
                /\ call.outcome.value = f.result

(* C1 amended: in every call that returns and whose stellar-mass sub-model *)
(* declares a galprop_name other than 'quiescent', the blueprint handed to *)
(* the factory has exactly two entries, the stellar-mass sub-model under   *)
(* its declared name and the SFR sub-model under 'quiescent'; in every     *)
(* call that returns, the value returned is the factory's result.          *)
C1_BlueprintTwoEntriesWhenNamesDiffer ==
    call.outcome.kind = "returned" =>
        /\ Len(call.factory_calls) = 1 /\ Len(call.sm_calls) = 1 /\ Len(call.sfr_calls) = 1
        /\ \A f \in FactoryInvs, sm \in SmInvs, sfr \in SfrInvs :
            LET bp == f.args.blueprint.val
            IN  /\ call.outcome.value = f.result
                /\ f.result # NoObj
                /\ DeclaredSm(sm) # "quiescent" =>
                      /\ Cardinality(DOMAIN bp) = 2
                      /\ DOMAIN bp = {DeclaredSm(sm), "quiescent"}
                      /\ bp[DeclaredSm(sm)] = sm.result
                      /\ bp["quiescent"] = sfr.result

C1_Witness ==
    /\ call.outcome.kind = "returned"
    /\ \E f \in FactoryInvs, sm \in SmInvs :
          /\ DeclaredSm(sm) = "mstar"
          /\ DOMAIN f.args.blueprint.val = {"mstar", "quiescent"}

(* C2: with threshold=T for a number T, the factory is called with the     *)
(* blueprint and a selection predicate that rejects stellar_mass = T - 1   *)
(* and stellar_mass = T and accepts stellar_mass = T + 1.                  *)
C2_PredicateIsStrictlyAboveThreshold ==
    \A f \in FactoryInvs :
        ("threshold" \in DOMAIN config.kwargs /\ config.kwargs["threshold"].t = "num") =>
            LET T == config.kwargs["threshold"].v
                g == f.args.galaxy_selection_func
            IN  /\ g.given
                /\ ~galaxy_selection_func(g.closure, Galaxy(T - 1))
                /\ ~galaxy_selection_func(g.closure, Galaxy(T))
                /\ galaxy_selection_func(g.closure, Galaxy(T + 1))
                /\ DOMAIN f.args.blueprint.val # {}

C2_Witness ==
    /\ call.outcome.kind = "returned"
    /\ "threshold" \in DOMAIN config.kwargs
    /\ config.kwargs["threshold"] = PyNum(10)
    /\ \E f \in FactoryInvs : f.args.galaxy_selection_func.given

(* C3 as stated: when no threshold is supplied, or threshold=None is       *)
(* supplied, the factory is called without a selection predicate.          *)
C3_NoPredicateWithoutThreshold ==
    \A f \in FactoryInvs :
        ("threshold" \notin DOMAIN config.kwargs \/ config.kwargs["threshold"] = PyNone) =>
            ~f.args.galaxy_selection_func.given

(* C4 as stated: no mutable object handed out by the present call was      *)
(* handed out by an earlier call, and a call relying on the default        *)
(* control points hands the SFR constructor the documented defaults.       *)
C4_NoSharedMutableObjects ==
    /\ (HandedObjs(call) \ {NoObj}) \cap handed = {}
    /\ \A sfr \in SfrInvs :
          /\ ~config.sfr_abcissa.given => sfr.args.abcissa.val = <<12, 15>>
          /\ ~config.sfr_ordinates.given => sfr.args.ordinates.val = <<25, 75>>

(* C5 as stated: a custom smhm_model is invoked exactly once in every      *)
(* builder call, with the caller's redshift and the prim_haloprop_key the  *)
(* SFR constructor got, and its return value is the blueprint's entry      *)
(* under the name it declares.                                             *)
C5_CustomSmhmOncePerCall ==
    (CustomSmhm /\ call.outcome.kind # "none") =>
        /\ Len(call.sm_calls) = 1
        /\ \A sm \in SmInvs, sfr \in SfrInvs :
              /\ sm.callee = config.smhm_model
              /\ sm.args.redshift = config.redshift
              /\ sm.args.prim_haloprop_key = sfr.args.prim_haloprop_key
              /\ \A f \in FactoryInvs :
                    /\ DeclaredSm(sm) \in DOMAIN f.args.blueprint.val
                    /\ f.args.blueprint.val[DeclaredSm(sm)] = sm.result

(* C5 amended: a custom smhm_model (never the default) is invoked at most  *)
(* once in a builder call and exactly once in every call that reaches the  *)
(* factory, with the caller's redshift and the prim_haloprop_key the SFR   *)
(* constructor got; its return value is the blueprint's entry under the    *)
(* name it declares unless that name is 'quiescent'.                       *)
C5_CustomSmhmInvokedWithSharedKey ==
    CustomSmhm =>
        /\ Len(call.sm_calls) <= 1
        /\ call.factory_calls # <<>> => Len(call.sm_calls) = 1
        /\ \A sm \in SmInvs :
              /\ sm.callee = config.smhm_model
              /\ sm.args.redshift = config.redshift
              /\ sm.args.prim_haloprop_key = config.prim_haloprop_key
              /\ \A sfr \in SfrInvs : sm.args.prim_haloprop_key = sfr.args.prim_haloprop_key
              /\ \A f \in FactoryInvs :
                    DeclaredSm(sm) # "quiescent" =>
                        /\ DeclaredSm(sm) \in DOMAIN f.args.blueprint.val
                        /\ f.args.blueprint.val[DeclaredSm(sm)] = sm.result

C5_Witness ==
    /\ config.smhm_model = "CustomSmHm"
    /\ config.redshift = 1
    /\ config.prim_haloprop_key = "halo_vmax"
    /\ call.outcome.kind = "returned"
    /\ \E sm \in SmInvs : sm.callee = "CustomSmHm"

(* C6: the SFR constructor receives the caller's sfr_abcissa,              *)
(* sfr_ordinates and logparam as abcissa, ordinates and logparam, the      *)
(* same objects with the same elements in the same order, and galprop_name *)
(* 'quiescent'.                                                            *)
C6_SfrArgumentsRoutedUnchanged ==
    \A sfr \in SfrInvs :
        /\ sfr.args.galprop_name = "quiescent"
        /\ sfr.args.logparam = config.logparam
        /\ sfr.args.prim_haloprop_key = config.prim_haloprop_key
        /\ IF config.sfr_abcissa.given
           THEN sfr.args.abcissa = [obj |-> Obj(ncalls, "arg_sfr_abcissa"), val |-> config.sfr_abcissa.val]
           ELSE sfr.args.abcissa.obj = DefaultAbcissaObj
        /\ IF config.sfr_ordinates.given
           THEN sfr.args.ordinates = [obj |-> Obj(ncalls, "arg_sfr_ordinates"), val |-> config.sfr_ordinates.val]
           ELSE sfr.args.ordinates.obj = DefaultOrdinatesObj

C6_Witness ==
    /\ config.sfr_abcissa.given /\ config.sfr_ordinates.given /\ ~config.logparam
    /\ \E sfr \in SfrInvs : sfr.args.abcissa.val = <<15, 12>> /\ sfr.args.ordinates.val = <<75, 25, 50>>

(* C7: when the SFR constructor, the stellar-mass constructor or the       *)
(* factory raises, the call ends with that same error, no later            *)
(* construction step is made, no step is made twice and no model is        *)
(* returned.                                                               *)
C7_ErrorsPropagateAndAbort ==
    /\ Len(call.sfr_calls) <= 1 /\ Len(call.sm_calls) <= 1 /\ Len(call.factory_calls) <= 1
    /\ \A sfr \in SfrInvs : sfr.raised # "ok" =>
          /\ call.outcome = Raised(sfr.raised)
          /\ call.sm_calls = <<>> /\ call.factory_calls = <<>>
    /\ \A sm \in SmInvs : sm.raised # "ok" =>
          /\ call.outcome = Raised(sm.raised)
          /\ call.factory_calls = <<>>
    /\ \A f \in FactoryInvs : f.raised # "ok" =>
          call.outcome = Raised(f.raised)
    /\ call.outcome.kind = "raised" => call.outcome.value = NoObj

C7_Witness ==
    /\ \E sm \in SmInvs : sm.raised = "KeyError"
    /\ call.outcome = Raised("KeyError")
    /\ call.factory_calls = <<>>

(* C8 as stated: constructing HOD_Model_Designer with any positional and   *)
(* keyword arguments never raises and leaves no state on the instance.     *)
C8_DesignerNeverRaises ==
    designer.constructed => (designer.raised = "none" /\ DOMAIN designer.attrs = {})

(* C8 amended: constructing HOD_Model_Designer with zero arguments, or     *)
(* with any mixture of positional and keyword arguments none of which is   *)
(* a keyword named self, never raises, and the instance carries no state   *)
(* derived from its arguments.                                             *)
C8_DesignerNoWorkUnlessSelfKeyword ==
    (designer.constructed /\ "self" \notin DOMAIN designer.kwargs) =>
        (designer.raised = "none" /\ DOMAIN designer.attrs = {})

C8_Witness ==
    /\ designer.constructed
    /\ Len(designer.args) = 2
    /\ DOMAIN designer.kwargs = {"centrals", "satellites"}
    /\ designer.raised = "none"

(* C9 as stated: in a call in which no collaborator raises, every extra    *)
(* keyword option, threshold included, is forwarded with the same name and *)
(* the same value to both the SFR constructor and the stellar-mass         *)
(* constructor.                                                            *)
C9_ExtraOptionsAlwaysReachBoth ==
    (call.outcome.kind # "none" /\ \A i \in SfrInvs \cup SmInvs \cup FactoryInvs : i.raised = "ok") =>
        /\ Len(call.sfr_calls) = 1 /\ Len(call.sm_calls) = 1
        /\ \A sfr \in SfrInvs : sfr.args.kwargs = config.kwargs
        /\ \A sm \in SmInvs : sm.args.kwargs = config.kwargs

(* C9 amended: each sub-model constructor that is called receives exactly  *)
(* the caller's extra keyword options, threshold included, none missing,   *)
(* added or altered.  The SFR constructor is called unless an option       *)
(* repeats an explicit keyword of its call; the stellar-mass constructor   *)
(* is called unless an option repeats an explicit keyword of either call   *)
(* or the SFR constructor raised.  An option that repeats an explicit      *)
(* keyword ends the call with TypeError before that constructor runs.      *)
C9_ExtraOptionsReachEachConstructorCalled ==
    /\ \A sfr \in SfrInvs :
          /\ DOMAIN sfr.args.kwargs = DOMAIN config.kwargs
          /\ \A k \in DOMAIN config.kwargs : sfr.args.kwargs[k] = config.kwargs[k]
    /\ \A sm \in SmInvs :
          /\ DOMAIN sm.args.kwargs = DOMAIN config.kwargs
          /\ \A k \in DOMAIN config.kwargs : sm.args.kwargs[k] = config.kwargs[k]
    /\ call.outcome.kind # "none" =>
          /\ Len(call.sfr_calls) = (IF KeywordClash(SfrKeywords, config.kwargs) THEN 0 ELSE 1)
          /\ Len(call.sm_calls) =
                (IF \/ KeywordClash(SfrKeywords, config.kwargs)
                    \/ KeywordClash(SmKeywords, config.kwargs)
                    \/ \E sfr \in SfrInvs : sfr.raised # "ok"
                 THEN 0 ELSE 1)
          /\ (\/ KeywordClash(SfrKeywords, config.kwargs)
              \/ (KeywordClash(SmKeywords, config.kwargs) /\ \A sfr \in SfrInvs : sfr.raised = "ok"))
                => call.outcome = Raised("TypeError")

C9_Witness ==
    /\ DOMAIN config.kwargs = {"threshold", "extra_option"}
    /\ \E sfr \in SfrInvs : "threshold" \in DOMAIN sfr.args.kwargs
    /\ \E sm \in SmInvs : "extra_option" \in DOMAIN sm.args.kwargs

(* C10 as stated: when both sub-models declare the same name, no error is  *)
(* raised and the blueprint's single entry is the stellar-mass sub-model,  *)
(* the one constructed second.                                             *)
C10_SecondConstructedSurvives ==
    NamesCollide =>
        /\ Len(call.factory_calls) = 1
        /\ \A f \in FactoryInvs, sm \in SmInvs :
              /\ DOMAIN f.args.blueprint.val = {"quiescent"}
              /\ f.args.blueprint.val["quiescent"] = sm.result

(* C10 amended: when both sub-models declare the same name, no error is    *)
(* raised and the blueprint's single entry is the SFR sub-model, the one   *)
(* constructed first and written last in the dict display; the             *)
(* stellar-mass sub-model is silently dropped.                             *)
C10_LastListedSurvives ==
    NamesCollide =>
        /\ Len(call.factory_calls) = 1
        /\ \A f \in FactoryInvs, sm \in SmInvs, sfr \in SfrInvs :
              /\ DOMAIN f.args.blueprint.val = {"quiescent"}
              /\ f.args.blueprint.val["quiescent"] = sfr.result
              /\ f.args.blueprint.val["quiescent"] # sm.result

C10_Witness ==
    /\ NamesCollide
    /\ call.outcome.kind = "returned"
    /\ \E f \in FactoryInvs : Cardinality(DOMAIN f.args.blueprint.val) = 1

====
